---- MODULE Spec2Model ----
(***************************************************************************)
(* drf-httpsig: SignatureAuthentication.authenticate                       *)
(* (src/drf_httpsig/authentication.py).  One execution of authenticate on  *)
(* one request, cut into steps at the calls it makes to its collaborators  *)
(* (the header parser, fetch_user_data, HeaderVerifier, time.time and      *)
(* fetch_on_behalf_of_user).                                               *)
(*                                                                         *)
(* Text that the code case-folds (the scheme token, the parameter keys,    *)
(* the HTTP method) and text that the code converts with int() is a tuple  *)
(* of one-character strings; every other text is one opaque string.        *)
(***************************************************************************)
EXTENDS Integers, Sequences, FiniteSets, TLC

VARIABLES request,   \* the request handed to authenticate (never changes)
          pc,        \* the statement authenticate is about to execute
          method,    \* scheme token returned by the parser (line 72)
          fields,    \* parameter mapping returned by the parser (line 72)
          user,      \* local `user` (lines 87 and 117)
          secret,    \* local `secret` (line 87)
          verified,  \* what the verification primitive did: "unset", "true", "false", "raise"
          expires,   \* local `expires` after lines 108-112
          now,       \* wall clock at line 113, in ticks; -1 before that line is reached
          verdict,   \* what authenticate hands back to its caller
          fetched,   \* history: the pair fetch_user_data returned
          impersonated, \* history: the call of fetch_on_behalf_of_user and its result
          raisedBy,  \* history: the collaborator whose exception ended the execution
          calls      \* history: the collaborators called, in order

vars == <<request, pc, method, fields, user, secret, verified, expires, now,
          verdict, fetched, impersonated, raisedBy, calls>>

(***************************** bounds ***************************************)
\* longest (expires) header value, in characters
MaxExpLen == 2
\* largest wall-clock reading, in ticks
MaxNowTicks == 4
\* clock resolution: time.time() is a float, so it has readings between two
\* whole seconds
TicksPerSecond == 2

(***************************** text *****************************************)
UpperAlpha == <<"A","B","C","D","E","F","G","H","I","J","K","L","M",
                "N","O","P","Q","R","S","T","U","V","W","X","Y","Z">>
LowerAlpha == <<"a","b","c","d","e","f","g","h","i","j","k","l","m",
                "n","o","p","q","r","s","t","u","v","w","x","y","z">>

\* the lower-case letter of each upper-case letter
LowerOf ==
    [c \in {UpperAlpha[i] : i \in 1..26} |->
        LowerAlpha[CHOOSE i \in 1..26 : UpperAlpha[i] = c]]

\* str.lower() on one character
LowerChar(c) == IF c \in DOMAIN LowerOf THEN LowerOf[c] ELSE c

\* str.lower()
Lower(s) == [i \in 1..Len(s) |-> LowerChar(s[i])]

\* the literal "signature" of line 75 (and the parameter name of line 83)
K_signature == <<"s","i","g","n","a","t","u","r","e">>
\* the literal "keyid" of lines 83, 88, 122
K_keyid == <<"k","e","y","i","d">>
\* the literal "algorithm" of lines 83, 88
K_algorithm == <<"a","l","g","o","r","i","t","h","m">>
\* the "headers" parameter, read by the verification primitive
K_headers == <<"h","e","a","d","e","r","s">>

\* Python's None
None == "None"
\* Python truthiness of the values the callbacks return (None and "" are falsy)
Truthy(x) == x \notin {None, ""}

(***************************** the request **********************************)
\* tests.py: the scheme tokens the tests send ("Signature", "NotSignature"),
\* and an upper-case spelling
SchemeSignature == <<"S","i","g","n","a","t","u","r","e">>
SchemeUpper == <<"S","I","G","N","A","T","U","R","E">>
SchemeForeign == <<"N","o","t","S","i","g","n","a","t","u","r","e">>

\* tests.py: the spellings of the keyId parameter the tests send
RawKeyId == <<"k","e","y","I","d">>
RawKeyIdCap == <<"K","e","y","I","d">>

KEYID == "some-key"
SECRET == "my secret string"
OtherKeyId == "foobar"
WrongSecret == "not my secret"
KeyIds == {KEYID, OtherKeyId}

\* the request line and headers of test_valid_signature
RequestMethod == <<"G","E","T">>
RequestPath == "/packages/measures/"
RequestHeader(name) ==
    CASE name = "host" -> "localhost:8000"
      [] name = "date" -> "Mon, 17 Feb 2014 06:11:05 GMT"
      [] name = "accept" -> "application/json"
      [] OTHER -> ""

\* class attribute required_headers
required_headers == <<"(request-target)", "date">>

\* the declared header lists of test_valid_signature and test_invalid_signature,
\* and one that leaves out a required header
OrderValid == <<"(request-target)", "accept", "date", "host">>
OrderPermuted == <<"(request-target)", "accept", "host", "date">>
OrderShort == <<"accept", "host">>
DeclaredLists == {OrderValid, OrderPermuted, OrderShort}

RECURSIVE JoinLines(_)
\* "\n".join(lines), as a sequence of text pieces
JoinLines(lines) ==
    IF Len(lines) = 0 THEN <<>>
    ELSE IF Len(lines) = 1 THEN lines[1]
    ELSE lines[1] \o <<"\n">> \o JoinLines(Tail(lines))

\* the value a declared header name stands for: (request-target) is
\* "<lowercased method> <path>", any other name is that request header
SignedValue(h) ==
    IF h = "(request-target)"
    THEN Lower(RequestMethod) \o <<" ", RequestPath>>
    ELSE <<RequestHeader(h)>>

\* the canonical signing string: one "name: value" line per declared header,
\* in the declared order
SigningString(declared) ==
    JoinLines([i \in 1..Len(declared) |->
                  <<declared[i], ": ">> \o SignedValue(declared[i])])

\* the signature of msg under key: an ideal MAC, equal only for equal key and text
Sign(key, msg) == <<"hmac-sha256", key>> \o msg

\* the signature the tests send: computed by the client over the valid order
SignatureOfValid == Sign(SECRET, SigningString(OrderValid))
SignatureOfPermuted == Sign(SECRET, SigningString(OrderPermuted))
SignatureBogus == <<"nope">>

Item(k, v) == [key |-> k, value |-> v, eq |-> TRUE]
\* a parameter with no "=" in it ("Signature some-wrong-value")
BareItem(v) == [key |-> <<>>, value |-> v, eq |-> FALSE]

KeyIdItems == {<<>>, <<Item(RawKeyId, <<KEYID>>)>>, <<Item(RawKeyIdCap, <<KEYID>>)>>,
               <<Item(RawKeyId, <<OtherKeyId>>)>>}
AlgorithmItems == {<<>>} \cup {<<Item(K_algorithm, <<a>>)>> : a \in {"hmac-sha256", "bogus"}}
SignatureItems == {<<>>, <<BareItem(<<"some-wrong-value">>)>>}
                  \cup {<<Item(K_signature, s)>> :
                          s \in {SignatureOfValid, SignatureOfPermuted, SignatureBogus}}
HeadersItems == {<<>>} \cup {<<Item(K_headers, h)>> : h \in DeclaredLists}

ParamLists == {k \o a \o s \o h : k \in KeyIdItems, a \in AlgorithmItems,
                                  s \in SignatureItems, h \in HeadersItems}

\* the parameters of test_valid_signature
ValidParams == <<Item(RawKeyId, <<KEYID>>), Item(K_algorithm, <<"hmac-sha256">>),
                 Item(K_headers, OrderValid), Item(K_signature, SignatureOfValid)>>

\* the Authorization header: absent, empty, a foreign scheme (with a bare
\* argument as in test_foreign_authorization, or with signature parameters),
\* or the Signature scheme, as the tests spell it or in upper case, with any
\* of the parameter lists
AuthorizationHeaders ==
    {[present |-> FALSE, scheme |-> <<>>, params |-> <<>>],
     [present |-> TRUE, scheme |-> <<>>, params |-> <<>>]}
    \cup {[present |-> TRUE, scheme |-> SchemeForeign, params |-> ps] :
             ps \in {<<BareItem(<<"some-relevant-argument">>)>>, ValidParams}}
    \cup {[present |-> TRUE, scheme |-> sc, params |-> ps] :
             sc \in {SchemeSignature, SchemeUpper}, ps \in ParamLists}

\* characters of an (expires) header value
ExpiresChars == {"-", "0", "1", "x"}
RECURSIVE StringsUpTo(_)
StringsUpTo(n) ==
    IF n = 0 THEN {<<>>}
    ELSE LET shorter == StringsUpTo(n - 1)
         IN shorter \cup {Append(s, c) : s \in shorter, c \in ExpiresChars}

ExpiresHeaders == {[present |-> FALSE, value |-> <<>>]}
                  \cup {[present |-> TRUE, value |-> v] : v \in StringsUpTo(MaxExpLen)}

OnBehalfOfHeaders == {[present |-> FALSE, value |-> ""],
                      [present |-> TRUE, value |-> "42"]}

Requests == [authorization : AuthorizationHeaders,
             expires : ExpiresHeaders,
             onBehalfOf : OnBehalfOfHeaders]

(***************************** the collaborators ****************************)
\* rest_framework get_authorization_header: the header's value, empty when
\* the request has none
get_authorization_header(req) ==
    IF req.authorization.present
    THEN [scheme |-> req.authorization.scheme, params |-> req.authorization.params]
    ELSE [scheme |-> <<>>, params |-> <<>>]

\* httpsig.utils.parse_authorization_header: the scheme token as sent, and the
\* key=value parameters as a mapping whose keys are case-folded; a parameter
\* without "=" is left out, a repeated key keeps its last value
parse_authorization_header(header) ==
    LET idx == {i \in 1..Len(header.params) : header.params[i].eq}
        keys == {Lower(header.params[i].key) : i \in idx}
        last(k) == CHOOSE i \in idx :
                      /\ Lower(header.params[i].key) = k
                      /\ \A j \in idx : Lower(header.params[j].key) = k => j <= i
    IN <<header.scheme, [k \in keys |-> header.params[last(k)].value]>>

IsDigit(c) == c \in {"0","1","2","3","4","5","6","7","8","9"}
DigitValue(c) ==
    CASE c = "0" -> 0 [] c = "1" -> 1 [] c = "2" -> 2 [] c = "3" -> 3
      [] c = "4" -> 4 [] c = "5" -> 5 [] c = "6" -> 6 [] c = "7" -> 7
      [] c = "8" -> 8 [] c = "9" -> 9

RECURSIVE DecimalValue(_)
DecimalValue(s) ==
    IF Len(s) = 0 THEN 0
    ELSE 10 * DecimalValue(SubSeq(s, 1, Len(s) - 1)) + DigitValue(s[Len(s)])

AllDigits(s) == Len(s) > 0 /\ \A i \in 1..Len(s) : IsDigit(s[i])

\* Python int(x) on a header value: None is a TypeError, text that is not an
\* optionally signed run of decimal digits is a ValueError
PyInt(h) ==
    IF ~h.present THEN [error |-> "TypeError", value |-> 0]
    ELSE LET s == h.value
             signed == Len(s) > 0 /\ s[1] \in {"-", "+"}
             body == IF signed THEN Tail(s) ELSE s
         IN IF ~AllDigits(body) THEN [error |-> "ValueError", value |-> 0]
            ELSE [error |-> "",
                  value |-> IF signed /\ s[1] = "-" THEN 0 - DecimalValue(body)
                            ELSE DecimalValue(body)]

\* the outcomes of a call self.fetch_user_data(keyId, algorithm=...):
\* the base class raises NotImplementedError; the subclass of tests.py raises
\* AuthenticationFailed('Bad key ID') for a key it does not know; a subclass
\* returns (User, secret), either of which may be None or empty
FetchUserDataOutcomes(keyid, algorithm) ==
    {[raises |-> "NotImplementedError", message |-> "", user |-> None, secret |-> None]}
    \cup (IF keyid # KEYID
          THEN {[raises |-> "AuthenticationFailed", message |-> "Bad key ID",
                 user |-> None, secret |-> None]}
          ELSE {})
    \cup {[raises |-> "", message |-> "", user |-> u, secret |-> k] :
             u \in {None, "test-user"}, k \in {None, "", SECRET, WrongSecret}}

\* the outcomes of a call self.fetch_on_behalf_of_user(user_id)
FetchOnBehalfOfOutcomes(user_id) ==
    {[raises |-> "NotImplementedError", user |-> None]}
    \cup {[raises |-> "", user |-> u] : u \in {None, "test-user", "other-user"}}

\* algorithms the verification primitive knows
SupportedAlgorithms == {"hmac-sha256"}

\* the header list the signature is declared over: the headers parameter, or
\* the configured list when the parameter is absent
DeclaredHeaders(f) == IF K_headers \in DOMAIN f THEN f[K_headers] ELSE required_headers

SeqRange(s) == {s[i] : i \in 1..Len(s)}

\* HeaderVerifier(request.headers, secret, required_headers, method, path):
\* "raise" when it refuses the declared algorithm
HeaderVerifierInit(f, key) ==
    IF f[K_algorithm][1] \in SupportedAlgorithms THEN "ok" ELSE "raise"

\* hs.verify(): "raise" when a required header is not among the declared ones,
\* else whether the supplied signature is the one of the signing string
HeaderVerifierVerify(f, key) ==
    IF ~(SeqRange(required_headers) \subseteq SeqRange(DeclaredHeaders(f))) THEN "raise"
    ELSE IF f[K_signature] = Sign(key, SigningString(DeclaredHeaders(f))) THEN "true"
    ELSE "false"

(***************************** verdicts *************************************)
Pending ==
    [kind |-> "pending", exc |-> "", message |-> "", object |-> "",
     principal |-> None, keyid |-> None]

\* `return None`
NoCredentialPresented == [Pending EXCEPT !.kind = "NoCredentialPresented"]

\* an exception leaving authenticate: an AuthenticationFailed is a rejection,
\* anything else an error; `object` tells the module-level instance from one
\* made for the occasion
Raise(exc, message, object) ==
    [Pending EXCEPT !.kind = IF exc = "AuthenticationFailed" THEN "Rejected" ELSE "Error",
                    !.exc = exc, !.message = message, !.object = object]

\* FAILED = exceptions.AuthenticationFailed("Invalid signature.")
FAILED == Raise("AuthenticationFailed", "Invalid signature.", "FAILED")

\* exceptions.AuthenticationFailed("On behalf of user was not found.")
OnBehalfOfNotFound ==
    Raise("AuthenticationFailed", "On behalf of user was not found.", "new")

\* `return (user, x)`
Authenticated(principal, keyid) ==
    [Pending EXCEPT !.kind = "Authenticated", !.principal = principal, !.keyid = keyid]

\* the text of a one-word parameter value
ValueText(v) == v[1]

(***************************** the conditions of authenticate ***************)
\* `not auth_header or len(auth_header) == 0`
NoAuthorization(h) == Len(h.scheme) = 0 /\ Len(h.params) = 0

\* mutant: the scheme is matched by its ending, `not method.lower().endswith("signature")`
ForeignScheme_suffix(m) ==
    \/ Len(m) < Len(K_signature)
    \/ Lower(SubSeq(m, Len(m) - Len(K_signature) + 1, Len(m))) # K_signature

\* `method.lower() != "signature"`
ForeignScheme(m) == Lower(m) # K_signature

\* `len(fields) == 0`
NoFields(f) == Cardinality(DOMAIN f) = 0

\* mutant: the count of missing fields is compared with 1, not 0
MissingRequired_offByOne(f) ==
    Cardinality({K_keyid, K_algorithm, K_signature} \ DOMAIN f) > 1

\* `len(set(("keyid", "algorithm", "signature")) - set(fields.keys())) > 0`
MissingRequired(f) ==
    Cardinality({K_keyid, K_algorithm, K_signature} \ DOMAIN f) > 0

\* mutant: only the user is tested, `not user`
NoCredential_userOnly(u, k) == ~Truthy(u)

\* `not (user and secret)`
NoCredential(u, k) == ~(Truthy(u) /\ Truthy(k))

\* mutant: the result of verify() is not tested
VerifyFailed_never(r) == FALSE

\* mutant: the test is inverted, `if hs.verify(): raise FAILED`
VerifyFailed_inverted(r) == r = "true"

\* `not hs.verify()`
VerifyFailed(r) == r # "true"

\* local `expires`: None, or an integer
NoExpires == [none |-> TRUE, value |-> 0]
IntExpires(n) == [none |-> FALSE, value |-> n]

\* truthiness of `expires`: None and 0 are falsy
ExpiresTruthy(e) == ~e.none /\ e.value # 0

\* `expires and time.time() > expires`, the clock reading t in ticks
Expired(e, t) == ExpiresTruthy(e) /\ t > e.value * TicksPerSecond

\* mutant: the impersonated principal is returned with the credential's keyid
OnBehalfOfResult_keyid(u, f) == Authenticated(u, ValueText(f[K_keyid]))

\* `return (user, None)`
OnBehalfOfResult(u, f) == Authenticated(u, None)

\* `return (user, fields["keyid"])`
DirectResult(u, f) == Authenticated(u, ValueText(f[K_keyid]))

(***************************** authenticate *********************************)
Init ==
    /\ request \in Requests
    /\ pc = "start"
    /\ method = <<>>
    /\ fields = <<>>
    /\ user = None
    /\ secret = None
    /\ verified = "unset"
    /\ expires = NoExpires
    /\ now = -1
    /\ verdict = Pending
    /\ fetched = [called |-> FALSE, user |-> None, secret |-> None]
    /\ impersonated = [called |-> FALSE, arg |-> "", user |-> None]
    /\ raisedBy = ""
    /\ calls = <<>>

Finish(v) == verdict' = v /\ pc' = "done"
Goto(l) == verdict' = verdict /\ pc' = l

\* lines 68-70
ReadAuthorization ==
    /\ pc = "start"
    /\ calls' = Append(calls, "get_authorization_header")
    /\ IF NoAuthorization(get_authorization_header(request))
       THEN Finish(NoCredentialPresented)
       ELSE Goto("parse")
    /\ UNCHANGED <<request, method, fields, user, secret, verified, expires, now, fetched,
                   impersonated, raisedBy>>

\* lines 72-76
ParseHeader ==
    /\ pc = "parse"
    /\ LET r == parse_authorization_header(get_authorization_header(request))
       IN /\ method' = r[1]
          /\ fields' = r[2]
          /\ IF ForeignScheme(r[1]) THEN Finish(NoCredentialPresented) ELSE Goto("validate")
    /\ calls' = Append(calls, "parse_authorization_header")
    /\ UNCHANGED <<request, user, secret, verified, expires, now, fetched, impersonated,
                   raisedBy>>

\* lines 78-84
ValidateFields ==
    /\ pc = "validate"
    /\ IF NoFields(fields) \/ MissingRequired(fields) THEN Finish(FAILED) ELSE Goto("fetch")
    /\ UNCHANGED <<request, method, fields, user, secret, verified, expires, now,
                   fetched, impersonated, raisedBy, calls>>

\* lines 86-92
FetchUserData ==
    /\ pc = "fetch"
    /\ IF ~({K_keyid, K_algorithm} \subseteq DOMAIN fields)
       THEN \* fields["keyid"] or fields["algorithm"] is a KeyError
            /\ Finish(Raise("KeyError", "", "new"))
            /\ raisedBy' = "fields"
            /\ UNCHANGED <<user, secret, fetched, calls>>
       ELSE \E o \in FetchUserDataOutcomes(ValueText(fields[K_keyid]),
                                           ValueText(fields[K_algorithm])) :
              /\ calls' = Append(calls, "fetch_user_data")
              /\ IF o.raises # ""
                 THEN /\ Finish(Raise(o.raises, o.message, "new"))
                      /\ raisedBy' = "fetch_user_data"
                      /\ UNCHANGED <<user, secret, fetched>>
                 ELSE /\ user' = o.user
                      /\ secret' = o.secret
                      /\ raisedBy' = raisedBy
                      /\ fetched' = [called |-> TRUE, user |-> o.user, secret |-> o.secret]
                      /\ IF NoCredential(o.user, o.secret)
                         THEN Finish(FAILED)
                         ELSE Goto("verify")
    /\ UNCHANGED <<request, method, fields, verified, expires, now, impersonated>>

\* lines 94-105
VerifyHeaders ==
    /\ pc = "verify"
    /\ IF HeaderVerifierInit(fields, secret) = "raise"
       THEN /\ calls' = Append(calls, "HeaderVerifier")
            /\ verified' = "raise"
            /\ raisedBy' = "HeaderVerifier"
            /\ Finish(Raise("HttpSigException", "", "new"))
       ELSE LET r == HeaderVerifierVerify(fields, secret)
            IN /\ calls' = calls \o <<"HeaderVerifier", "verify">>
               /\ verified' = r
               /\ raisedBy' = IF r = "raise" THEN "verify" ELSE raisedBy
               /\ IF r = "raise" THEN Finish(Raise("Exception", "", "new"))
                  ELSE IF VerifyFailed(r) THEN Finish(FAILED)
                  ELSE Goto("expires")
    /\ UNCHANGED <<request, method, fields, user, secret, expires, now, fetched,
                   impersonated>>

\* lines 107-114
CheckExpires ==
    /\ pc = "expires"
    /\ LET r == PyInt(request.expires)
       IN IF r.error = "ValueError"
          THEN \* only TypeError is caught
               /\ calls' = Append(calls, "expires")
               /\ Finish(Raise("ValueError", "", "new"))
               /\ raisedBy' = "int"
               /\ UNCHANGED <<expires, now>>
          ELSE /\ raisedBy' = raisedBy
               /\ expires' = IF r.error = "TypeError" THEN NoExpires ELSE IntExpires(r.value)
               /\ \E t \in 0..MaxNowTicks :
                    /\ now' = t
                    /\ calls' = IF ExpiresTruthy(expires')
                                THEN calls \o <<"expires", "time">>
                                ELSE Append(calls, "expires")
                    /\ IF Expired(expires', t) THEN Finish(FAILED) ELSE Goto("onbehalf")
    /\ UNCHANGED <<request, method, fields, user, secret, verified, fetched,
                   impersonated>>

\* lines 116-122
OnBehalfOf ==
    /\ pc = "onbehalf"
    /\ IF request.onBehalfOf.present
       THEN \E o \in FetchOnBehalfOfOutcomes(request.onBehalfOf.value) :
              /\ calls' = Append(calls, "fetch_on_behalf_of_user")
              /\ impersonated' = [called |-> TRUE, arg |-> request.onBehalfOf.value,
                                  user |-> o.user]
              /\ IF o.raises # ""
                 THEN /\ Finish(Raise(o.raises, "", "new"))
                      /\ raisedBy' = "fetch_on_behalf_of_user"
                      /\ user' = user
                 ELSE /\ user' = o.user
                      /\ raisedBy' = raisedBy
                      /\ IF ~Truthy(o.user)
                         THEN Finish(OnBehalfOfNotFound)
                         ELSE Finish(OnBehalfOfResult(o.user, fields))
       ELSE /\ Finish(DirectResult(user, fields))
            /\ UNCHANGED <<user, calls, impersonated, raisedBy>>
    /\ UNCHANGED <<request, method, fields, secret, verified, expires, now, fetched>>

Next ==
    \/ ReadAuthorization
    \/ ParseHeader
    \/ ValidateFields
    \/ FetchUserData
    \/ VerifyHeaders
    \/ CheckExpires
    \/ OnBehalfOf

Spec == Init /\ [][Next]_vars

(***************************** properties ***********************************)
Done == pc = "done"
Called(op) == \E i \in 1..Len(calls) : calls[i] = op
\* the position of the first call of op
CallIndex(op) == CHOOSE i \in 1..Len(calls) : calls[i] = op /\ \A j \in 1..(i - 1) : calls[j] # op

\* read off the request itself, not off the locals of authenticate
HeaderMissing == ~request.authorization.present \/ Len(request.authorization.scheme) = 0
SchemeIsSignature ==
    ~HeaderMissing /\ Lower(request.authorization.scheme) = K_signature
SentKeys ==
    {Lower(request.authorization.params[i].key) :
        i \in {j \in 1..Len(request.authorization.params) : request.authorization.params[j].eq}}
SentValue(k) ==
    LET i == CHOOSE j \in 1..Len(request.authorization.params) :
                 /\ request.authorization.params[j].eq
                 /\ Lower(request.authorization.params[j].key) = k
    IN request.authorization.params[i].value
LacksRequiredField == {K_keyid, K_algorithm, K_signature} \ SentKeys # {}

\* C1: a request without an Authorization header, with an empty one, or with
\* one whose scheme is not "signature" when lowercased, gets the verdict
\* NoCredentialPresented; nothing is raised, and neither fetch_user_data, the
\* verification primitive nor fetch_on_behalf_of_user is called.
Thm_C1 ==
    (HeaderMissing \/ ~SchemeIsSignature) =>
        /\ pc \in {"start", "parse", "done"}
        /\ verdict.kind \in {"pending", "NoCredentialPresented"}
        /\ Done => verdict = NoCredentialPresented
        /\ ~Called("fetch_user_data") /\ ~Called("HeaderVerifier")
        /\ ~Called("verify") /\ ~Called("fetch_on_behalf_of_user")

Wit_C1 ==
    /\ Done
    /\ request.authorization.scheme = SchemeForeign
    /\ request.authorization.params = ValidParams
    /\ verdict = NoCredentialPresented

\* C2: a Signature header whose parameters are empty or lack keyid, algorithm
\* or signature (keys compared case-insensitively) is rejected with the
\* module-level "Invalid signature." failure, whichever fields are missing,
\* and fetch_user_data is never called.
Thm_C2 ==
    (SchemeIsSignature /\ LacksRequiredField) =>
        /\ pc \in {"start", "parse", "validate", "done"}
        /\ Done => verdict = FAILED /\ verdict.message = "Invalid signature."
        /\ ~Called("fetch_user_data")

Wit_C2 ==
    /\ Done
    /\ request.authorization.scheme = SchemeSignature
    /\ SentKeys = {K_keyid, K_algorithm}
    /\ request.authorization.params[1].key = RawKeyIdCap
    /\ verdict = FAILED

\* C3: every rejection that reaches the caller is the module-level FAILED
\* value with message "Invalid signature.", except the impersonation message
\* "On behalf of user was not found.", which is reached only after the
\* signature check returned true.
CX_C3 ==
    (Done /\ verdict.kind = "Rejected") =>
        \/ verdict = FAILED
        \/ verdict = OnBehalfOfNotFound /\ verified = "true"

\* C4: an exception raised by fetch_user_data, by fetch_on_behalf_of_user, or
\* by the verification primitive (its construction or verify) reaches the
\* caller as the generic rejection "Invalid signature.", never as the raw
\* exception or with another message.
CX_C4 ==
    raisedBy \in {"fetch_user_data", "fetch_on_behalf_of_user", "HeaderVerifier", "verify"}
        => verdict = FAILED

\* C5: once the signature verified, an absent (expires) header or one whose
\* value is not a number counts as "no expiry": authenticate neither rejects
\* nor raises because of it and goes on to the impersonation step.
CX_C5 ==
    (verified = "true" /\ pc # "expires" /\ PyInt(request.expires).error # "") =>
        /\ raisedBy # "int"
        /\ verdict # FAILED
        /\ pc \in {"onbehalf", "done"}
        /\ Done => (Called("fetch_on_behalf_of_user") \/ verdict.kind = "Authenticated")

\* C6: once the signature verified, an (expires) header holding the integer e
\* (0 and negative values included) gets the generic rejection when e is
\* strictly before the current time, and no rejection for expiry when e is
\* the current time or later.
CX_C6 ==
    (verified = "true" /\ pc # "expires" /\ PyInt(request.expires).error = "") =>
        LET e == PyInt(request.expires).value
        IN /\ e * TicksPerSecond < now => verdict = FAILED
           /\ e * TicksPerSecond >= now => verdict # FAILED

\* some list with the same header names in another order
IsPermutation(a, b) ==
    /\ Len(a) = Len(b)
    /\ \A i \in 1..Len(a) :
          Cardinality({j \in 1..Len(a) : a[j] = a[i]})
              = Cardinality({j \in 1..Len(b) : b[j] = a[i]})

\* the credential lookup gave the secret the client signed with, and the
\* client's signature was computed over the header list `signed`
SignedOver(signed) ==
    /\ fetched.called /\ Truthy(fetched.user) /\ fetched.secret = SECRET
    /\ SchemeIsSignature /\ ~LacksRequiredField
    /\ K_headers \in SentKeys
    /\ SentValue(K_algorithm) = <<"hmac-sha256">>
    /\ SentValue(K_signature) = Sign(SECRET, SigningString(signed))

\* C7: the signing string follows the declared header list: two declared
\* lists that are different orders of the same names have different signing
\* strings, so a signature computed over one order is rejected (generic
\* failure) when the request declares another order of the same names, and
\* passes the signature check, ending Authenticated, when the request declares
\* the order it was computed over.
Thm_C7 ==
    \A signed \in DeclaredLists :
        (SignedOver(signed) /\ IsPermutation(signed, SentValue(K_headers))) =>
            IF SentValue(K_headers) = signed
            THEN /\ verified \in {"unset", "true"}
                 /\ pc = "verify" \/ verified = "true"
                 /\ (Done /\ ~request.expires.present /\ ~request.onBehalfOf.present)
                       => verdict.kind = "Authenticated"
            ELSE /\ SigningString(SentValue(K_headers)) # SigningString(signed)
                 /\ verified \in {"unset", "false"}
                 /\ pc = "verify" \/ (Done /\ verdict = FAILED)

Wit_C7 ==
    /\ SignedOver(OrderValid)
    /\ SentValue(K_headers) = OrderPermuted
    /\ verified = "false"
    /\ verdict = FAILED

\* C8: when authenticate returns Authenticated and the request carries
\* On-Behalf-Of, the result is (the principal fetch_on_behalf_of_user returned
\* for the header's raw value, None); when it carries none, the result is
\* (the principal fetch_user_data returned, the header's keyid value) and
\* fetch_on_behalf_of_user was never called.
Thm_C8 ==
    verdict.kind = "Authenticated" =>
        IF request.onBehalfOf.present
        THEN /\ impersonated.called
             /\ impersonated.arg = request.onBehalfOf.value
             /\ verdict.principal = impersonated.user
             /\ verdict.keyid = None
        ELSE /\ verdict.principal = fetched.user
             /\ verdict.keyid = ValueText(SentValue(K_keyid))
             /\ ~impersonated.called
             /\ ~Called("fetch_on_behalf_of_user")

Wit_C8 ==
    /\ verdict.kind = "Authenticated"
    /\ request.onBehalfOf.present
    /\ fetched.user = "test-user"
    /\ impersonated.user = "other-user"
    /\ verdict.principal = "other-user"

\* C9: when fetch_user_data returns a pair whose principal or secret (or both)
\* is falsy, authenticate ends in the generic rejection, and the verification
\* primitive, the expiry check and fetch_on_behalf_of_user are never run.
Thm_C9 ==
    (fetched.called /\ (fetched.user \in {None, ""} \/ fetched.secret \in {None, ""})) =>
        /\ Done
        /\ verdict = FAILED
        /\ calls[Len(calls)] = "fetch_user_data"
        /\ ~Called("HeaderVerifier") /\ ~Called("verify")
        /\ ~Called("expires") /\ ~Called("time")
        /\ ~Called("fetch_on_behalf_of_user")

Wit_C9 ==
    /\ fetched.called
    /\ fetched.user = "test-user"
    /\ fetched.secret = ""
    /\ verdict = FAILED

\* C10: the (expires) value is read, fetch_on_behalf_of_user is called and
\* Authenticated is returned only after verify returned true in the same
\* execution, which happens only after fetch_user_data returned a truthy
\* principal and secret; after a false signature check nothing else runs, and
\* nothing runs after a terminal verdict.
Thm_C10 ==
    /\ \A op \in {"expires", "time", "fetch_on_behalf_of_user"} :
          Called(op) => /\ verified = "true"
                        /\ Called("verify")
                        /\ CallIndex("verify") < CallIndex(op)
    /\ verdict.kind = "Authenticated" => verified = "true" /\ Called("verify")
    /\ Called("verify") =>
          /\ Called("fetch_user_data")
          /\ CallIndex("fetch_user_data") < CallIndex("verify")
          /\ fetched.called /\ Truthy(fetched.user) /\ Truthy(fetched.secret)
    /\ verified = "false" =>
          /\ Done /\ verdict = FAILED
          /\ calls[Len(calls)] = "verify"
    /\ verdict.kind # "pending" => Done /\ ~ENABLED Next

Wit_C10 ==
    /\ verdict.kind = "Authenticated"
    /\ Called("time")
    /\ Called("fetch_on_behalf_of_user")
    /\ CallIndex("verify") < CallIndex("expires")

====
